---- MODULE Spec2Model ----
(***************************************************************************)
(* Mini Render Queue (src/src/main.py): a directory of JSON job            *)
(* descriptors, a heapq-backed priority queue of JobItem records and the   *)
(* single-threaded poll/execute loop of main().                            *)
(*                                                                         *)
(* Three specifications share the variables:                               *)
(*   Spec       the loop of main() with its environment (producers that    *)
(*              drop and remove descriptor files, SIGINT/SIGTERM)          *)
(*   SpecQueue  JobQueue alone, under every interleaving of push and pop   *)
(*   SpecLoad   load_job_file alone, over a product of descriptors         *)
(***************************************************************************)
EXTENDS Integers, Sequences, FiniteSets, TLC

(***************************************************************************)
(* Bounds of the model.                                                    *)
(***************************************************************************)
\* number of descriptor file names the producers use (each name once)
NFiles == 2
\* largest length of the queue in SpecQueue
MaxQueue == 3

\* SpecCrash: the number of times the process is killed and started again
MaxCrashes == 1

(***************************************************************************)
(* Values.  A record with one tag field stands for a value of another      *)
(* Python type, so that values of different types stay comparable.         *)
(***************************************************************************)
\* Python None (pop on an empty queue, no job in hand)
None == [none |-> TRUE]
\* no file under that name in jobs/
NoFile == [nofile |-> TRUE]
\* file content that json.load rejects
Malformed == [malformed |-> TRUE]
\* file content that is valid JSON but no object (a list, a number)
NonObject == [nonobject |-> TRUE]

\* st_mtime values
Times == {0, 1}

\* strings that occur as id or command, in Python's str order
StrOrder == <<"", "a", "b", "echo hi", "echo high", "echo low", "j1", "j2", "j3", "j4">>

StrRank(s) == CHOOSE i \in 1..Len(StrOrder) : StrOrder[i] = s

\* str.__lt__
StrLt(s, t) == StrRank(s) < StrRank(t)

\* file names *.json under jobs/: a path is its stem and its suffix
Stems == <<"j1", "j2", "j3", "j4">>

Files == {[stem |-> Stems[i], suffix |-> ".json"] : i \in 1..NFiles}

\* Path.stem
PathStem(path) == path.stem

(***************************************************************************)
(* int(x) of line 109, for the JSON values a priority field can hold:      *)
(* [int |-> n] a JSON integer, [float10 |-> n] the JSON number n/10,       *)
(* [str |-> <<chars>>] a JSON string, [null |-> TRUE] JSON null.           *)
(* The result is [ok |-> TRUE, v |-> n] or [ok |-> FALSE, exc |-> name].   *)
(***************************************************************************)
Digits == <<"0", "1", "2", "3", "4", "5", "6", "7", "8", "9">>

IsDigit(c) == \E i \in 1..10 : Digits[i] = c

DigitVal(c) == (CHOOSE i \in 1..10 : Digits[i] = c) - 1

RECURSIVE DigitsVal(_, _)
\* value of a sequence of digit characters, most significant first
DigitsVal(cs, acc) ==
    IF cs = <<>> THEN acc ELSE DigitsVal(Tail(cs), 10 * acc + DigitVal(Head(cs)))

\* int("...") of a str: optional sign, then one or more digits
ParseInt(cs) ==
    LET signed == cs # <<>> /\ Head(cs) \in {"-", "+"}
        body == IF signed THEN Tail(cs) ELSE cs
    IN  IF body # <<>> /\ \A i \in 1..Len(body) : IsDigit(body[i])
        THEN [ok |-> TRUE,
              v |-> IF signed /\ Head(cs) = "-" THEN 0 - DigitsVal(body, 0)
                    ELSE DigitsVal(body, 0)]
        ELSE [ok |-> FALSE, exc |-> "ValueError"]

\* int(x) of a float: truncation toward zero
TruncFloat10(n) == IF n >= 0 THEN n \div 10 ELSE 0 - ((0 - n) \div 10)

PyInt(x) ==
    IF "int" \in DOMAIN x THEN [ok |-> TRUE, v |-> x.int]
    ELSE IF "float10" \in DOMAIN x THEN [ok |-> TRUE, v |-> TruncFloat10(x.float10)]
    ELSE IF "str" \in DOMAIN x THEN ParseInt(x.str)
    ELSE [ok |-> FALSE, exc |-> "TypeError"]

(***************************************************************************)
(* JobItem (dataclass, order=True).                                        *)
(***************************************************************************)
\* a slip in __post_init__: the priority is not negated
SortIndexNotNegated(priority, created_at) == <<priority, created_at>>

\* JobItem.__post_init__
SortIndex(priority, created_at) == <<0 - priority, created_at>>

\* JobItem(...): src is bookkeeping of the model (the file the record was
\* loaded from); the dataclass has no such field and nothing compares it
JobItem(priority, created_at, job_id, command, raw, src) ==
    [sort_index |-> SortIndex(priority, created_at),
     priority |-> priority,
     created_at |-> created_at,
     job_id |-> job_id,
     command |-> command,
     raw |-> raw,
     src |-> src]

\* tuple.__lt__ on (int, float): the first differing component decides
SortIndexLt(s, t) ==
    \/ s[1] < t[1]
    \/ s[1] = t[1] /\ s[2] < t[2]

\* a slip in JobItem: job_id and command declared with compare=False, so that
\* sort_index alone orders the records
JobLtSortIndexOnly(a, b) == SortIndexLt(a.sort_index, b.sort_index)

\* JobItem.__lt__ generated by order=True: the tuples
\* (sort_index, priority, created_at, job_id, command) compared, raw left out
JobLt(a, b) ==
    IF a.sort_index # b.sort_index THEN SortIndexLt(a.sort_index, b.sort_index)
    ELSE IF a.priority # b.priority THEN a.priority < b.priority
    ELSE IF a.created_at # b.created_at THEN a.created_at < b.created_at
    ELSE IF a.job_id # b.job_id THEN StrLt(a.job_id, b.job_id)
    ELSE IF a.command # b.command THEN StrLt(a.command, b.command)
    ELSE FALSE

(***************************************************************************)
(* heapq on a list, 0-based positions as in heapq, over 1-based sequences. *)
(***************************************************************************)
At(heap, pos) == heap[pos + 1]

Put(heap, pos, item) == [heap EXCEPT ![pos + 1] = item]

RECURSIVE SiftdownLoop(_, _, _, _)
\* the while loop of heapq._siftdown: newitem moves up past larger parents
SiftdownLoop(heap, startpos, pos, newitem) ==
    IF pos > startpos
    THEN LET parentpos == (pos - 1) \div 2
             parent == At(heap, parentpos)
         IN  IF JobLt(newitem, parent)
             THEN SiftdownLoop(Put(heap, pos, parent), startpos, parentpos, newitem)
             ELSE Put(heap, pos, newitem)
    ELSE Put(heap, pos, newitem)

\* heapq._siftdown
Siftdown(heap, startpos, pos) == SiftdownLoop(heap, startpos, pos, At(heap, pos))

RECURSIVE SiftupLoop(_, _, _, _)
\* the while loop of heapq._siftup: the smaller child moves up until a leaf
SiftupLoop(heap, startpos, pos, newitem) ==
    LET endpos == Len(heap)
        childpos == 2 * pos + 1
        rightpos == childpos + 1
        pick == IF rightpos < endpos /\ ~JobLt(At(heap, childpos), At(heap, rightpos))
                THEN rightpos ELSE childpos
    IN  IF childpos < endpos
        THEN SiftupLoop(Put(heap, pos, At(heap, pick)), startpos, pick, newitem)
        ELSE Siftdown(Put(heap, pos, newitem), startpos, pos)

\* heapq._siftup
Siftup(heap, pos) == SiftupLoop(heap, pos, pos, At(heap, pos))

\* heapq.heappush: the list after the push
heappush(heap, item) == Siftdown(Append(heap, item), 0, Len(heap))

\* heapq.heappop on a non-empty list: the item returned and the list left
heappop(heap) ==
    LET lastelt == heap[Len(heap)]
        rest == SubSeq(heap, 1, Len(heap) - 1)
    IN  IF rest # <<>>
        THEN [item |-> rest[1], heap |-> Siftup(Put(rest, 0, lastelt), 0)]
        ELSE [item |-> lastelt, heap |-> rest]

(***************************************************************************)
(* State.                                                                  *)
(***************************************************************************)
VARIABLES
    disk,       \* jobs/: path -> NoFile or [data |-> content, mtime |-> t]
    used,       \* names a producer has already written
    queue,      \* JobQueue._queue, the heap list
    kill_now,   \* GracefulKiller._kill_now
    pc,         \* position of main(); in SpecQueue the last JobQueue call made
    pending,    \* paths of the current glob still to be visited
    job_item,   \* job_item of scan_jobs_directory, None outside the try block
    job,        \* job of main(): the last value queue.pop() returned
    \* what the log lines and the scan in progress show (bookkeeping)
    pushes,     \* per file: number of "Queued job" lines (queue.push calls)
    started,    \* per file: number of [START] lines
    outcome,    \* per file: the [SUCCESS] / [FAILED] lines logged
    kill_at,    \* state of the loop when the first signal came, or "none"
    listed,     \* the paths the glob of the scan in progress returned
    failed,     \* paths of the scan in progress whose load raised
    cur_scan,   \* paths the scan in progress has pushed
    same_scan,  \* pairs {f, g} of paths pushed by one and the same scan
    popped,     \* SpecQueue: items popped since the last push
    argv,       \* the command line: <<>> or <<"--poll-interval", tenths of a second>>
    sleeping,   \* the argument of the time.sleep in progress, 0 outside Idle
    since_exec, \* scans begun since the last [START]: "none" (no [START] yet),
                \* "zero", "one" or "more"
    after_kill, \* [START] lines and scans begun since the flag was set
    crashes,    \* SpecCrash: number of times the process was killed and restarted
    lost        \* SpecCrash: the record pushed but not unlinked at the last kill

vars == <<disk, used, queue, kill_now, pc, pending, job_item, job, pushes,
          started, outcome, kill_at, listed, failed, cur_scan, same_scan, popped,
          argv, sleeping, since_exec, after_kill, crashes, lost>>

\* the variables of the environment, of the loop, and of the bookkeeping
envVars == <<disk, used>>

scanVars == <<listed, failed, cur_scan, same_scan>>

logVars == <<pushes, started, outcome>>

\* what no step of main() writes, and what a run of main() has gone through
fixedVars == <<popped, argv, crashes, lost>>

histVars == <<sleeping, since_exec, after_kill>>

(***************************************************************************)
(* Configuration.  Durations are in tenths of a second.                    *)
(***************************************************************************)
\* POLL_INTERVAL = 1.0
POLL_INTERVAL == 10

\* the command lines the service is started with: no option, or
\* --poll-interval 0.5, 1.0 or 2.5
CommandLines == {<<>>} \cup {<<"--poll-interval", v>> : v \in {5, 10, 25}}

\* parse_args(): the namespace argparse builds from the command line
parse_args(line) == [poll_interval |-> IF line = <<>> THEN 10 ELSE line[2]]

(***************************************************************************)
(* Descriptors: a JSON object is a record over the keys it holds.          *)
(***************************************************************************)
\* the object with the fields given: each argument is <<>> (key absent) or <<v>>
Desc(i, p, c, n) ==
    [k \in (IF i = <<>> THEN {} ELSE {"id"})
           \cup (IF p = <<>> THEN {} ELSE {"priority"})
           \cup (IF c = <<>> THEN {} ELSE {"command"})
           \cup (IF n = <<>> THEN {} ELSE {"note"})
       |-> CASE k = "id" -> i[1]
             [] k = "priority" -> p[1]
             [] k = "command" -> c[1]
             [] k = "note" -> n[1]]

\* priority values of SpecLoad: JSON integers, "7", "-3", "high", 2.5, -2.5, null
PriorityValues ==
    {[int |-> 0], [int |-> 5], [int |-> 0 - 3],
     [str |-> <<"7">>], [str |-> <<"-", "3">>], [str |-> <<"h", "i", "g", "h">>],
     [float10 |-> 25], [float10 |-> 0 - 25], [null |-> TRUE]}

\* file contents of SpecLoad
LoadContents ==
    {Malformed, NonObject}
    \cup {Desc(i, p, c, n) :
            i \in {<<>>, <<"a">>, <<"b">>},
            p \in {<<>>} \cup {<<v>> : v \in PriorityValues},
            c \in {<<>>, <<"">>, <<"echo hi">>},
            n \in {<<>>, <<"x">>}}

\* the files the producers of Spec write: descriptors that load, at either
\* mtime, and contents that do not load
LoopFiles ==
    {[data |-> d, mtime |-> t] :
        d \in {Desc(<<>>, <<[int |-> 10]>>, <<"echo high">>, <<>>),
               Desc(<<>>, <<[int |-> 1]>>, <<"echo low">>, <<>>),
               Desc(<<"a">>, <<>>, <<"">>, <<>>)},
        t \in Times}
    \cup {[data |-> d, mtime |-> 0] :
            d \in {Desc(<<"a">>, <<[int |-> 5]>>, <<>>, <<>>),
                   Desc(<<>>, <<[str |-> <<"h", "i", "g", "h">>]>>, <<"echo hi">>, <<>>),
                   Malformed}}

(***************************************************************************)
(* load_job_file: [ok |-> TRUE, job |-> JobItem] or [ok |-> FALSE, exc].   *)
(***************************************************************************)
\* a slip in line 109: a missing priority defaults to 1
DefaultPriorityOne == [int |-> 1]

\* the default of data.get("priority", 0)
DefaultPriority == [int |-> 0]

\* data.get(key, default)
DictGet(data, key, default) == IF key \in DOMAIN data THEN data[key] ELSE default

load_job_file(fs, path) ==
    IF fs[path] = NoFile THEN [ok |-> FALSE, exc |-> "FileNotFoundError"]
    ELSE LET data == fs[path].data
         IN  IF data = Malformed THEN [ok |-> FALSE, exc |-> "JSONDecodeError"]
             ELSE IF data = NonObject THEN [ok |-> FALSE, exc |-> "AttributeError"]
             ELSE LET job_id == DictGet(data, "id", PathStem(path))
                      priority == PyInt(DictGet(data, "priority", DefaultPriority))
                  IN  IF ~priority.ok THEN [ok |-> FALSE, exc |-> priority.exc]
                      ELSE IF "command" \notin DOMAIN data
                           THEN [ok |-> FALSE, exc |-> "KeyError"]
                           ELSE [ok |-> TRUE,
                                 job |-> JobItem(priority.v, fs[path].mtime, job_id,
                                                 data.command, data, path)]

(***************************************************************************)
(* JobQueue.                                                               *)
(***************************************************************************)
\* JobQueue.push: the heap list after the push
push(q, item) == heappush(q, item)

\* a slip in pop: list.pop() instead of heappop, the last record of the list
popTakesLast(q) ==
    IF q = <<>> THEN [item |-> None, heap |-> q]
    ELSE [item |-> q[Len(q)], heap |-> SubSeq(q, 1, Len(q) - 1)]

\* a slip in pop: the smallest record is returned but left in the list
popKeepsItem(q) == IF q = <<>> THEN [item |-> None, heap |-> q] ELSE [item |-> q[1], heap |-> q]

\* a slip in pop: the queue is looked at but nothing is ever taken from it
popNeverServes(q) == [item |-> None, heap |-> q]

\* JobQueue.pop: the value returned and the heap list left
pop(q) == IF q = <<>> THEN [item |-> None, heap |-> q] ELSE heappop(q)

(***************************************************************************)
(* process_job: what the command ended with, and the line logged for it.   *)
(***************************************************************************)
\* subprocess.run(job.command, shell=True, ...): the exit status of the shell,
\* or an exception other than CalledProcessError (the shell cannot be started)
RunResults == {[returncode |-> 0], [returncode |-> 2], [raised |-> "OSError"]}

\* the terminal line process_job logs: check=True turns a non-zero status into
\* CalledProcessError (line 164), anything else raised goes to line 169
process_job(res) ==
    IF "raised" \in DOMAIN res
    THEN [status |-> "FAILED", error |-> res.raised]
    ELSE IF res.returncode = 0
         THEN [status |-> "SUCCESS"]
         ELSE [status |-> "FAILED", exit_code |-> res.returncode]

(***************************************************************************)
(* Spec: main() and its environment.                                       *)
(***************************************************************************)
InitState ==
    /\ disk = [f \in Files |-> NoFile]
    /\ used = {}
    /\ queue = <<>>
    /\ kill_now = FALSE
    /\ pc = "LoopHead"
    /\ pending = <<>>
    /\ job_item = None
    /\ job = None
    /\ pushes = [f \in Files |-> 0]
    /\ started = [f \in Files |-> 0]
    /\ outcome = [f \in Files |-> <<>>]
    /\ kill_at = "none"
    /\ listed = {}
    /\ failed = {}
    /\ cur_scan = {}
    /\ same_scan = {}
    /\ popped = <<>>
    /\ sleeping = 0
    /\ since_exec = "none"
    /\ after_kill = [starts |-> 0, scans |-> 0]
    /\ crashes = 0
    /\ lost = None

\* the service is started with no option on the command line
Init ==
    /\ InitState
    /\ argv = <<>>

\* main() has neither returned nor been left by an exception
Running == pc \notin {"Stopped", "Crashed"}

\* the state of the poll/execute loop main() is in
LoopState ==
    IF pc \in {"ScanGlob", "ScanLoad", "ScanPush", "ScanUnlink"} THEN "Scanning" ELSE pc

\* a producer writes a descriptor file under a name not used before
Drop(f, file) ==
    /\ Running
    /\ f \notin used
    /\ disk' = [disk EXCEPT ![f] = file]
    /\ used' = used \cup {f}
    /\ UNCHANGED <<queue, kill_now, pc, pending, job_item, job, logVars,
                   kill_at, scanVars, fixedVars, histVars>>

\* somebody other than the loop removes a descriptor file
Remove(f) ==
    /\ Running
    /\ disk[f] # NoFile
    /\ disk' = [disk EXCEPT ![f] = NoFile]
    /\ UNCHANGED <<used, queue, kill_now, pc, pending, job_item, job, logVars,
                   kill_at, scanVars, fixedVars, histVars>>

\* GracefulKiller.exit_gracefully: SIGINT or SIGTERM is delivered
Signal ==
    /\ Running
    /\ kill_now' = TRUE
    /\ kill_at' = IF kill_now THEN kill_at ELSE LoopState
    /\ UNCHANGED <<envVars, queue, pc, pending, job_item, job, logVars,
                   scanVars, fixedVars, histVars>>

\* a slip in the loop condition: the flag stops the loop only once the queue
\* is drained (while not killer.kill_now or len(queue))
CheckKillDrains ==
    /\ pc = "LoopHead"
    /\ pc' = IF kill_now /\ queue = <<>> THEN "Stopped" ELSE "ScanGlob"
    /\ UNCHANGED <<envVars, queue, kill_now, pending, job_item, job, logVars,
                   kill_at, scanVars, fixedVars, histVars>>

\* while not killer.kill_now
CheckKill ==
    /\ pc = "LoopHead"
    /\ pc' = IF kill_now THEN "Stopped" ELSE "ScanGlob"
    /\ UNCHANGED <<envVars, queue, kill_now, pending, job_item, job, logVars,
                   kill_at, scanVars, fixedVars, histVars>>

\* the orders in which a directory listing can give the files of S
Orders(S) ==
    {s \in [1..Cardinality(S) -> S] : \A i, j \in 1..Cardinality(S) : s[i] = s[j] => i = j}

\* JOBS_DIR.glob("*.json"): the listing is taken when the for loop starts
ScanGlob ==
    /\ pc = "ScanGlob"
    /\ listed' = {f \in Files : disk[f] # NoFile /\ f.suffix = ".json"}
    /\ pending' \in Orders(listed')
    /\ failed' = {}
    /\ cur_scan' = {}
    /\ pc' = "ScanLoad"
    /\ since_exec' = CASE since_exec = "zero" -> "one"
                        [] since_exec = "one" -> "more"
                        [] OTHER -> since_exec
    /\ after_kill' = IF kill_now THEN [after_kill EXCEPT !.scans = @ + 1] ELSE after_kill
    /\ UNCHANGED <<envVars, queue, kill_now, job_item, job, logVars,
                   kill_at, same_scan, fixedVars, sleeping>>

\* a slip in scan_jobs_directory: the try encloses the for loop, so the first
\* exception ends the scan
ScanLoadAborts ==
    /\ pc = "ScanLoad"
    /\ pending # <<>>
    /\ LET r == load_job_file(disk, Head(pending))
       IN  IF r.ok
           THEN /\ job_item' = r.job
                /\ pc' = "ScanPush"
                /\ UNCHANGED <<pending, failed>>
           ELSE /\ pending' = <<>>
                /\ failed' = failed \cup {Head(pending)}
                /\ UNCHANGED <<job_item, pc>>
    /\ UNCHANGED <<envVars, queue, kill_now, job, logVars, kill_at,
                   listed, cur_scan, same_scan, fixedVars, histVars>>

\* a slip in scan_jobs_directory: no try around the body of the for loop, so
\* an exception of load_job_file leaves main()
ScanLoadPropagates ==
    /\ pc = "ScanLoad"
    /\ pending # <<>>
    /\ LET r == load_job_file(disk, Head(pending))
       IN  IF r.ok
           THEN /\ job_item' = r.job
                /\ pc' = "ScanPush"
           ELSE /\ pc' = "Crashed"
                /\ UNCHANGED job_item
    /\ UNCHANGED <<envVars, queue, kill_now, pending, job, logVars, kill_at,
                   scanVars, fixedVars, histVars>>

\* job_item = load_job_file(path); an exception goes to the handler of line
\* 135, which logs and lets the for loop go on
ScanLoad ==
    /\ pc = "ScanLoad"
    /\ pending # <<>>
    /\ LET r == load_job_file(disk, Head(pending))
       IN  IF r.ok
           THEN /\ job_item' = r.job
                /\ pc' = "ScanPush"
                /\ UNCHANGED <<pending, failed>>
           ELSE /\ pending' = Tail(pending)
                /\ failed' = failed \cup {Head(pending)}
                /\ UNCHANGED <<job_item, pc>>
    /\ UNCHANGED <<envVars, queue, kill_now, job, logVars, kill_at,
                   listed, cur_scan, same_scan, fixedVars, histVars>>

\* a slip in scan_jobs_directory: the record is pushed by the loader and by
\* the scan
ScanPushTwice ==
    /\ pc = "ScanPush"
    /\ queue' = push(push(queue, job_item), job_item)
    /\ pushes' = [pushes EXCEPT ![job_item.src] = @ + 2]
    /\ same_scan' = same_scan \cup {{job_item.src, g} : g \in cur_scan \ {job_item.src}}
    /\ cur_scan' = cur_scan \cup {job_item.src}
    /\ pc' = "ScanUnlink"
    /\ UNCHANGED <<envVars, kill_now, pending, job_item, job, started, outcome,
                   kill_at, listed, failed, fixedVars, histVars>>

\* a slip in scan_jobs_directory: path.unlink() comes before queue.push
ScanPushUnlinksFirst ==
    /\ pc = "ScanPush"
    /\ disk' = [disk EXCEPT ![Head(pending)] = NoFile]
    /\ queue' = push(queue, job_item)
    /\ pushes' = [pushes EXCEPT ![job_item.src] = @ + 1]
    /\ same_scan' = same_scan \cup {{job_item.src, g} : g \in cur_scan \ {job_item.src}}
    /\ cur_scan' = cur_scan \cup {job_item.src}
    /\ pc' = "ScanUnlink"
    /\ UNCHANGED <<used, kill_now, pending, job_item, job, started, outcome,
                   kill_at, listed, failed, fixedVars, histVars>>

\* queue.push(job_item)
ScanPush ==
    /\ pc = "ScanPush"
    /\ queue' = push(queue, job_item)
    /\ pushes' = [pushes EXCEPT ![job_item.src] = @ + 1]
    /\ same_scan' = same_scan \cup {{job_item.src, g} : g \in cur_scan \ {job_item.src}}
    /\ cur_scan' = cur_scan \cup {job_item.src}
    /\ pc' = "ScanUnlink"
    /\ UNCHANGED <<envVars, kill_now, pending, job_item, job, started, outcome,
                   kill_at, listed, failed, fixedVars, histVars>>

\* a slip in scan_jobs_directory: path.unlink() is left out
ScanUnlinkKeepsFile ==
    /\ pc = "ScanUnlink"
    /\ pending' = Tail(pending)
    /\ job_item' = None
    /\ pc' = "ScanLoad"
    /\ UNCHANGED <<envVars, queue, kill_now, job, logVars, kill_at, scanVars, fixedVars, histVars>>

\* path.unlink(): FileNotFoundError, when the file is gone by now, goes to the
\* handler of line 135; either way the for loop goes on with the next path
ScanUnlink ==
    /\ pc = "ScanUnlink"
    /\ disk' = [disk EXCEPT ![Head(pending)] = NoFile]
    /\ pending' = Tail(pending)
    /\ job_item' = None
    /\ pc' = "ScanLoad"
    /\ UNCHANGED <<used, queue, kill_now, job, logVars, kill_at, scanVars, fixedVars, histVars>>

\* the for loop of scan_jobs_directory is exhausted
ScanDone ==
    /\ pc = "ScanLoad"
    /\ pending = <<>>
    /\ listed' = {}
    /\ failed' = {}
    /\ cur_scan' = {}
    /\ pc' = "Dispatching"
    /\ UNCHANGED <<envVars, queue, kill_now, pending, job_item, job, logVars,
                   kill_at, same_scan, fixedVars, histVars>>

\* job = queue.pop(); if job: process_job(job) logs [START] and runs the
\* command; else: time.sleep(POLL_INTERVAL) is entered
Dispatch ==
    /\ pc = "Dispatching"
    /\ LET r == pop(queue)
       IN  /\ job' = r.item
           /\ queue' = r.heap
           /\ IF r.item # None
              THEN /\ started' = [started EXCEPT ![r.item.src] = @ + 1]
                   /\ since_exec' = "zero"
                   /\ after_kill' = IF kill_now
                                    THEN [after_kill EXCEPT !.starts = @ + 1]
                                    ELSE after_kill
                   /\ pc' = "Executing"
                   /\ UNCHANGED sleeping
              ELSE /\ sleeping' = POLL_INTERVAL
                   /\ pc' = "Idle"
                   /\ UNCHANGED <<started, since_exec, after_kill>>
    /\ UNCHANGED <<envVars, kill_now, pending, job_item, pushes, outcome,
                   kill_at, scanVars, fixedVars>>

\* a slip in main: after a job the next one is popped at once, with no scan
FinishDispatchesNext(res) ==
    /\ pc = "Executing"
    /\ outcome' = [outcome EXCEPT ![job.src] = Append(@, process_job(res))]
    /\ pc' = IF kill_now THEN "LoopHead" ELSE "Dispatching"
    /\ UNCHANGED <<envVars, queue, kill_now, pending, job_item, job, pushes,
                   started, kill_at, scanVars, fixedVars, histVars>>

\* a slip in process_job: a job whose command failed is pushed back for a retry
FinishRequeuesFailed(res) ==
    /\ pc = "Executing"
    /\ outcome' = [outcome EXCEPT ![job.src] = Append(@, process_job(res))]
    /\ queue' = IF process_job(res).status = "FAILED" THEN push(queue, job) ELSE queue
    /\ pc' = "LoopHead"
    /\ UNCHANGED <<envVars, kill_now, pending, job_item, job, pushes,
                   started, kill_at, scanVars, fixedVars, histVars>>

\* the command ends, process_job logs [SUCCESS] or [FAILED] and returns
Finish(res) ==
    /\ pc = "Executing"
    /\ outcome' = [outcome EXCEPT ![job.src] = Append(@, process_job(res))]
    /\ pc' = "LoopHead"
    /\ UNCHANGED <<envVars, queue, kill_now, pending, job_item, job, pushes,
                   started, kill_at, scanVars, fixedVars, histVars>>

\* time.sleep(POLL_INTERVAL) returns
Sleep ==
    /\ pc = "Idle"
    /\ sleeping' = 0
    /\ pc' = "LoopHead"
    /\ UNCHANGED <<envVars, queue, kill_now, pending, job_item, job, logVars,
                   kill_at, scanVars, fixedVars, since_exec, after_kill>>

Next ==
    \/ \E f \in Files, file \in LoopFiles : Drop(f, file)
    \/ \E f \in Files : Remove(f)
    \/ Signal
    \/ CheckKill
    \/ ScanGlob
    \/ ScanLoad
    \/ ScanPush
    \/ ScanUnlink
    \/ ScanDone
    \/ Dispatch
    \/ \E res \in RunResults : Finish(res)
    \/ Sleep

Spec == Init /\ [][Next]_vars

\* a step of main(): the thread is never suspended for good, every command
\* ends and every sleep returns
LoopStep ==
    \/ CheckKill
    \/ ScanGlob
    \/ ScanLoad
    \/ ScanPush
    \/ ScanUnlink
    \/ ScanDone
    \/ Dispatch
    \/ \E res \in RunResults : Finish(res)
    \/ Sleep

\* the files the producers of SpecFair write: two descriptors that load and
\* a file that does not
FairFiles ==
    {[data |-> d, mtime |-> 0] :
        d \in {Desc(<<>>, <<[int |-> 10]>>, <<"echo high">>, <<>>),
               Desc(<<>>, <<[int |-> 1]>>, <<"echo low">>, <<>>),
               Malformed}}

NextFair ==
    \/ \E f \in Files, file \in FairFiles : Drop(f, file)
    \/ \E f \in Files : Remove(f)
    \/ Signal
    \/ LoopStep

SpecFair == Init /\ [][NextFair]_vars /\ WF_vars(LoopStep)

\* SpecLive: the same with no signal ever delivered
NextLive ==
    \/ \E f \in Files, file \in FairFiles : Drop(f, file)
    \/ \E f \in Files : Remove(f)
    \/ LoopStep

SpecLive == Init /\ [][NextLive]_vars /\ WF_vars(LoopStep)

(***************************************************************************)
(* SpecQueue: JobQueue alone.  A driver calls push and pop in any order,   *)
(* as list_job_files of main_test.py does with its own queue; pc names the *)
(* call made last.                                                         *)
(***************************************************************************)
\* two payloads that differ only in a field nothing compares
RawA == Desc(<<>>, <<>>, <<"echo hi">>, <<>>)

RawB == Desc(<<>>, <<>>, <<"echo hi">>, <<"x">>)

\* the payload of a record with another command
RawC == Desc(<<>>, <<>>, <<"echo low">>, <<>>)

\* the records the driver pushes
QueueItems ==
    {JobItem(p, t, i, "echo hi", RawA, [stem |-> "j1", suffix |-> ".json"]) :
        p \in {0, 1}, t \in Times, i \in {"a", "b"}}
    \cup {JobItem(0, 0, "a", "echo hi", RawB, [stem |-> "j1", suffix |-> ".json"]),
          JobItem(0, 0, "a", "echo low", RawC, [stem |-> "j1", suffix |-> ".json"])}

InitQueue ==
    /\ Init
    /\ pc = "LoopHead"

\* queue.push(item)
QPush(item) ==
    /\ Len(queue) < MaxQueue
    /\ queue' = push(queue, item)
    /\ job_item' = item
    /\ popped' = <<>>
    /\ pc' = "pushed"
    /\ UNCHANGED <<envVars, kill_now, pending, job, logVars, kill_at, scanVars,
                   argv, crashes, lost, histVars>>

\* job = queue.pop()
QPop ==
    /\ LET r == pop(queue)
       IN  /\ job' = r.item
           /\ queue' = r.heap
           /\ popped' = IF r.item = None THEN popped ELSE Append(popped, r.item)
    /\ pc' = "popped"
    /\ UNCHANGED <<envVars, kill_now, pending, job_item, logVars, kill_at, scanVars,
                   argv, crashes, lost, histVars>>

NextQueue ==
    \/ \E item \in QueueItems : QPush(item)
    \/ QPop

SpecQueue == InitQueue /\ [][NextQueue]_vars

(***************************************************************************)
(* SpecLoad: load_job_file alone.  One file, of any content, may be in     *)
(* jobs/; the try block of scan_jobs_directory is about to load a path.    *)
(***************************************************************************)
InitLoad ==
    /\ \E f \in Files :
          disk \in {[g \in Files |-> IF g = f THEN x ELSE NoFile] :
                      x \in {NoFile} \cup {[data |-> d, mtime |-> t] :
                                             d \in LoadContents, t \in Times}}
    /\ used = {f \in Files : disk[f] # NoFile}
    /\ queue = <<>>
    /\ kill_now = FALSE
    /\ pc = "ScanLoad"
    /\ \E f \in Files : pending = <<f>>
    /\ job_item = None
    /\ job = None
    /\ pushes = [f \in Files |-> 0]
    /\ started = [f \in Files |-> 0]
    /\ outcome = [f \in Files |-> <<>>]
    /\ kill_at = "none"
    /\ listed = {pending[1]}
    /\ failed = {}
    /\ cur_scan = {}
    /\ same_scan = {}
    /\ popped = <<>>
    /\ argv = <<>>
    /\ sleeping = 0
    /\ since_exec = "none"
    /\ after_kill = [starts |-> 0, scans |-> 0]
    /\ crashes = 0
    /\ lost = None

NextLoad == ScanLoad

SpecLoad == InitLoad /\ [][NextLoad]_vars

(***************************************************************************)
(* SpecPoll: main() started with any of the command lines.                 *)
(***************************************************************************)
InitPoll ==
    /\ InitState
    /\ argv \in CommandLines

SpecPoll == InitPoll /\ [][Next]_vars

(***************************************************************************)
(* SpecDir: creating or listing jobs/ can fail (jobs is a regular file, a  *)
(* parent directory is not writable, the directory cannot be read).        *)
(***************************************************************************)
\* JOBS_DIR.mkdir(...) or JOBS_DIR.glob(...) raises: both are outside the
\* try block, the exception leaves scan_jobs_directory and main()
ScanDirError ==
    /\ pc = "ScanGlob"
    /\ pc' = "Crashed"
    /\ UNCHANGED <<envVars, queue, kill_now, pending, job_item, job, logVars,
                   kill_at, scanVars, fixedVars, histVars>>

NextDir ==
    \/ Next
    \/ ScanDirError

SpecDir == Init /\ [][NextDir]_vars

(***************************************************************************)
(* SpecCrash: the process can be killed outright (SIGKILL, power loss)     *)
(* inside the try block of scan_jobs_directory, after queue.push returned  *)
(* and before path.unlink() ran, and is then started again.  No            *)
(* other process removes files from jobs/ and no signal is handled.        *)
(***************************************************************************)
\* the process dies and main() is entered anew: the queue and every local are
\* gone, jobs/ and the log are what they were
Crash ==
    /\ pc = "ScanUnlink"
    /\ crashes < MaxCrashes
    /\ crashes' = crashes + 1
    /\ lost' = job_item
    /\ queue' = <<>>
    /\ kill_now' = FALSE
    /\ pc' = "LoopHead"
    /\ pending' = <<>>
    /\ job_item' = None
    /\ job' = None
    /\ kill_at' = "none"
    /\ listed' = {}
    /\ failed' = {}
    /\ cur_scan' = {}
    /\ same_scan' = {}
    /\ sleeping' = 0
    /\ since_exec' = "none"
    /\ after_kill' = [starts |-> 0, scans |-> 0]
    /\ UNCHANGED <<envVars, logVars, popped, argv>>

NextCrash ==
    \/ \E f \in Files, file \in LoopFiles : Drop(f, file)
    \/ CheckKill
    \/ ScanGlob
    \/ ScanLoad
    \/ ScanPush
    \/ ScanUnlink
    \/ ScanDone
    \/ Dispatch
    \/ \E res \in RunResults : Finish(res)
    \/ Sleep
    \/ Crash

SpecCrash == Init /\ [][NextCrash]_vars

(***************************************************************************)
(* Claims.                                                                 *)
(***************************************************************************)
\* the elements of a sequence
Range(seq) == {seq[i] : i \in 1..Len(seq)}

\* r is served before x: higher priority, or the same priority and not later
ServedFirst(r, x) ==
    \/ r.priority > x.priority
    \/ r.priority = x.priority /\ r.created_at <= x.created_at

\* a step of SpecQueue in which pop is called on a non-empty queue
PopStep == QPop /\ queue # <<>>

\* the records popped since the last push come in non-increasing priority and,
\* within one priority, in non-decreasing created_at
PoppedInOrder ==
    \A i, j \in 1..Len(popped) : i < j => ServedFirst(popped[i], popped[j])

\* C1: under every interleaving of push and pop, a pop on a non-empty queue
\* returns a record of the queue such that no record of the queue has a higher
\* priority and none of the same priority has an earlier created_at; so the
\* records popped with no push in between come in non-increasing priority
\* and, within one priority, in non-decreasing created_at.
C1_PopServesBest ==
    /\ [][PopStep =>
            /\ job' \in Range(queue)
            /\ \A x \in Range(queue) : ServedFirst(job', x)]_vars
    /\ []PoppedInOrder

\* three records popped in a row: a higher priority first, then two of one
\* priority, the earlier created_at first
C1_Witness ==
    /\ pc = "popped"
    /\ Len(popped) = 3
    /\ popped[1].priority > popped[2].priority
    /\ popped[2].priority = popped[3].priority
    /\ popped[2].created_at < popped[3].created_at

\* how often x occurs in a sequence
Count(seq, x) == Cardinality({i \in 1..Len(seq) : seq[i] = x})

\* C8: pop on an empty queue returns None and leaves the queue empty; pop on a
\* non-empty queue returns a record and makes the queue exactly one shorter;
\* push makes the queue exactly one longer and removes nothing (every record
\* occurs as often as before, the pushed one once more).
C8_PushPopFrame ==
    /\ [][QPop =>
            IF queue = <<>>
            THEN job' = None /\ queue' = <<>>
            ELSE job' # None /\ Len(queue') = Len(queue) - 1]_vars
    /\ [][\A item \in QueueItems :
            QPush(item) =>
              /\ Len(queue') = Len(queue) + 1
              /\ \A x \in Range(queue') :
                    Count(queue', x) = Count(queue, x) + (IF x = item THEN 1 ELSE 0)]_vars

\* pop was called on a queue that pushes had filled and pops had emptied again,
\* and returned None
C8_Witness ==
    /\ pc = "popped"
    /\ job = None
    /\ queue = <<>>
    /\ job_item # None

\* the path the try block is about to load
LoadPath == Head(pending)

\* the file at LoadPath holds a JSON object
LoadsObject ==
    /\ pc = "ScanLoad"
    /\ pending # <<>>
    /\ disk[LoadPath] # NoFile
    /\ disk[LoadPath].data \notin {Malformed, NonObject}

\* the JSON value v is the integer n (2.0 == 2 in Python, "2" is not 2)
IsInteger(v, n) ==
    \/ "int" \in DOMAIN v /\ v.int = n
    \/ "float10" \in DOMAIN v /\ v.float10 = 10 * n

\* load_job_file returned a record with the id, command and payload of data
LoadedFrom(data) ==
    /\ pc' = "ScanPush"
    /\ job_item' # None
    /\ job_item'.command = data.command
    /\ job_item'.job_id = (IF "id" \in DOMAIN data THEN data.id ELSE LoadPath.stem)
    /\ job_item'.raw = data

\* C10 as stated: for every descriptor with a command field load_job_file
\* returns a record with the descriptor's command, its id or else the stem of
\* the file name, its priority or else 0, and the whole descriptor as raw;
\* loading neither deletes the file nor changes the queue.
C10_Original ==
    [][(ScanLoad /\ LoadsObject /\ "command" \in DOMAIN disk[LoadPath].data) =>
         LET data == disk[LoadPath].data
         IN  /\ LoadedFrom(data)
             /\ IF "priority" \in DOMAIN data
                THEN IsInteger(data.priority, job_item'.priority)
                ELSE job_item'.priority = 0
             /\ disk' = disk
             /\ queue' = queue]_vars

\* C10 amended: a descriptor with a command field whose priority is absent or
\* int()-coercible loads to a record with the descriptor's command, its id or
\* else the stem of the file name, the whole descriptor as raw and the priority
\* int(priority) (0 if absent, the number itself if it is an integer, the
\* number truncated toward zero if it is not, the number a numeric string
\* spells); one whose priority int() rejects loads to nothing; loading
\* neither deletes the file nor changes the queue.
C10_LoadRoundTrip ==
    [][(ScanLoad /\ LoadsObject /\ "command" \in DOMAIN disk[LoadPath].data) =>
         LET data == disk[LoadPath].data
             coerced == IF "priority" \in DOMAIN data THEN PyInt(data.priority)
                        ELSE [ok |-> TRUE, v |-> 0]
         IN  /\ IF coerced.ok
                THEN /\ LoadedFrom(data)
                     /\ job_item'.priority = coerced.v
                     /\ "priority" \in DOMAIN data /\ "int" \in DOMAIN data.priority
                          => job_item'.priority = data.priority.int
                ELSE /\ pc' = "ScanLoad"
                     /\ job_item' = None
             /\ disk' = disk
             /\ queue' = queue]_vars

\* a descriptor with a command and an unrecognized field, but no id and no
\* priority, has been loaded: the id is the stem, the priority 0
C10_Witness ==
    /\ pc = "ScanPush"
    /\ job_item # None
    /\ DOMAIN job_item.raw = {"command", "note"}
    /\ job_item.job_id = LoadPath.stem
    /\ job_item.priority = 0
    /\ job_item.command = "echo hi"

LoadFails == ScanLoad /\ ~load_job_file(disk, LoadPath).ok

\* a step in which path.unlink() raises: the file was removed meanwhile
UnlinkFails == ScanUnlink /\ disk[LoadPath] = NoFile

\* what C3 says of a failure on the path in hand: nothing was enqueued for it,
\* the loop leaves the directory as it is, and the for loop goes on with the
\* paths still to be visited
SkippedUntouched ==
    /\ queue' = queue
    /\ pushes'[LoadPath] = 0
    /\ disk' = disk
    /\ pending' = Tail(pending)
    /\ pc' = "ScanLoad"

\* every scan lists every descriptor file then in the directory
GlobListsAll ==
    [][ScanGlob => \A f \in Files : disk[f] # NoFile => f \in Range(pending')]_vars

\* C3 as stated: whenever an exception is raised inside the per-file try block
\* the queue is what it was before the file was attempted, the file is left
\* alone, the rest of the scan goes on, and every later scan lists the file
\* again while it is there.
C3_Original ==
    /\ [][(LoadFails \/ UnlinkFails) => SkippedUntouched]_vars
    /\ GlobListsAll

\* C3 amended: whenever load_job_file raises (malformed content, non-integer
\* priority, missing command, file gone) the queue is what it was before the
\* file was attempted, the loop leaves the file alone, the rest of the scan
\* goes on, and every later scan lists the file again while it is there.  (An
\* exception raised later in the try block, by path.unlink() on a file removed
\* meanwhile, comes after the push.)
C3_LoadFailureSkipsFile ==
    /\ [][LoadFails => SkippedUntouched]_vars
    /\ GlobListsAll

\* a scan that met a failing file, which is still on disk, has gone on to load
\* and push another file
C3_Witness ==
    /\ pc = "ScanUnlink"
    /\ \E f \in failed : disk[f] # NoFile /\ pushes[f] = 0
    /\ queue # <<>>

\* the last element of a non-empty sequence
Last(seq) == seq[Len(seq)]

\* nothing is scanned, pushed, popped or started in the step
NothingDispatched ==
    /\ queue' = queue
    /\ started' = started
    /\ pushes' = pushes
    /\ job' = job

\* C4: with the flag set while a job is executing, the job runs on until its
\* terminal line is logged, the loop then goes to its head and from there to
\* Stopped, and nothing is scanned or dispatched on the way; from Stopped
\* nothing is scanned or dispatched any more.
C4_GracefulShutdown ==
    /\ [][(pc = "Executing" /\ kill_now) =>
            \/ pc' = "Executing" /\ outcome' = outcome /\ NothingDispatched
            \/ /\ pc' = "LoopHead"
               /\ Len(outcome'[job.src]) = Len(outcome[job.src]) + 1
               /\ Last(outcome'[job.src]).status \in {"SUCCESS", "FAILED"}
               /\ NothingDispatched]_vars
    /\ [][(pc = "LoopHead" /\ kill_now) =>
            pc' \in {"LoopHead", "Stopped"} /\ NothingDispatched]_vars
    /\ [][pc = "Stopped" => pc' = "Stopped" /\ NothingDispatched /\ disk' = disk]_vars
    /\ [](kill_at = "Executing" /\ pc = "Stopped" =>
            job # None /\ Len(outcome[job.src]) = started[job.src])

\* the signal came while a job was executing; the loop has stopped with that
\* job's terminal line logged and another job still in the queue
C4_Witness ==
    /\ pc = "Stopped"
    /\ kill_at = "Executing"
    /\ job # None
    /\ Len(outcome[job.src]) = 1
    /\ queue # <<>>

\* the files whose jobs are in the queue
Queued == {x.src : x \in Range(queue)}

\* a popped job is started exactly once and has exactly one terminal line once
\* its command has ended; once started it is never in the queue again
StartedOnce ==
    \A f \in Files :
       /\ started[f] <= 1
       /\ Len(outcome[f]) =
            (IF pc = "Executing" /\ job.src = f THEN started[f] - 1 ELSE started[f])
       /\ started[f] >= 1 => f \notin Queued

\* after the terminal line the loop is at its head with the queue as it was,
\* and from there, unless told to stop, it scans again
LoopGoesOn ==
    /\ [][(pc = "Executing" /\ pc' # pc) => pc' = "LoopHead" /\ queue' = queue]_vars
    /\ [][(pc = "LoopHead" /\ ~kill_now /\ pc' # pc) => pc' = "ScanGlob"]_vars

\* C5 as stated: a popped job is executed exactly once and gets exactly one
\* terminal outcome, success on exit status 0 and otherwise (non-zero exit,
\* launch failure, any other exception) a failure recorded with the exit
\* status; it is never pushed back or executed again, and the loop goes on.
C5_Original ==
    /\ []StartedOnce
    /\ [][\A res \in RunResults :
            Finish(res) =>
              LET o == Last(outcome'[job.src])
              IN  /\ o.status = "SUCCESS" <=> res = [returncode |-> 0]
                  /\ o.status = "FAILED" => "exit_code" \in DOMAIN o]_vars
    /\ LoopGoesOn

\* C5 amended: a popped job is executed exactly once and gets exactly one
\* terminal outcome: success on exit status 0, a failure recorded with the
\* exit status on a non-zero exit, a failure recorded with the exception (and
\* no exit status) on any other exception; it is never pushed back or executed
\* again, and the loop goes on to the next scan.
C5_ExecutedOnce ==
    /\ []StartedOnce
    /\ [][\A res \in RunResults :
            Finish(res) =>
              LET o == Last(outcome'[job.src])
              IN  /\ o.status = "SUCCESS" <=> res = [returncode |-> 0]
                  /\ o.status \in {"SUCCESS", "FAILED"}
                  /\ "returncode" \in DOMAIN res /\ res.returncode # 0
                       => o.exit_code = res.returncode
                  /\ "raised" \in DOMAIN res
                       => o.error = res.raised /\ "exit_code" \notin DOMAIN o]_vars
    /\ LoopGoesOn

\* a job failed with exit status 2 and the loop is scanning again
C5_Witness ==
    /\ pc = "ScanLoad"
    /\ job # None
    /\ outcome[job.src] = <<[status |-> "FAILED", exit_code |-> 2]>>

\* C6: the job dispatched has the highest priority of the queue at that
\* moment, which holds every job the scan just ended has loaded; of two jobs
\* loaded by one scan the one of lower priority is never popped while the
\* other is in the queue, whatever scans come in between.
C6_HighestFirst ==
    /\ [][(Dispatch /\ queue # <<>>) =>
            /\ pc' = "Executing"
            /\ job' \in Range(queue)
            /\ \A x \in Range(queue) : x.priority <= job'.priority]_vars
    /\ [][ScanDone => cur_scan \subseteq Queued]_vars
    /\ [](job # None =>
            \A x \in Range(queue) :
               {x.src, job.src} \in same_scan => x.priority <= job.priority)

\* two descriptors were loaded by one scan; the higher one has run, a further
\* scan has taken place, and the one of priority 1 is executing
C6_Witness ==
    /\ pc = "Executing"
    /\ job.priority = 1
    /\ \E f \in Files : {f, job.src} \in same_scan /\ outcome[f] # <<>>

C9_CommandNonEmpty ==
    /\ \A x \in Range(queue) : x.command # ""
    /\ pc = "Executing" => job.command # ""

\* the poll interval the service is configured with: the --poll-interval
\* override when the command line has one, 1 second otherwise
Configured == parse_args(argv).poll_interval

\* C11: while the loop is Idle it sleeps for the configured poll interval, the
\* value of --poll-interval when the option is given and 1 second otherwise.
C11_SleepsConfigured == pc = "Idle" => sleeping = Configured

\* the first scan of the restarted loop is over
Rescanned == lost # None /\ pc \in {"Dispatching", "Executing", "Idle"}

\* C12: when the process is killed between the push of a loaded file and its
\* unlink, the queue is lost but the descriptor is still on disk, unchanged;
\* the next scan of the restarted loop lists it, loads the same record and
\* enqueues it again, so the job is enqueued at least once after the restart
\* and its descriptor is deleted only after that.
C12_CrashReloads ==
    /\ [][Crash => /\ disk' = disk
                   /\ disk[lost'.src] # NoFile
                   /\ queue' = <<>>]_vars
    /\ [][ScanGlob /\ lost # None /\ disk[lost.src] # NoFile
            => lost.src \in listed']_vars
    /\ [][ScanDone /\ lost # None /\ lost.src \in listed
            => \E i \in 1..Len(queue) : queue[i] = lost]_vars
    /\ [](Rescanned => pushes[lost.src] >= 2 /\ disk[lost.src] = NoFile)

\* the process was killed after a push and before the unlink; the restarted
\* loop has pushed the same record a second time
C12_Witness ==
    /\ Rescanned
    /\ pc = "Dispatching"
    /\ pushes[lost.src] = 2
    /\ \E i \in 1..Len(queue) : queue[i] = lost

\* the jobs with a [START] line and no terminal line yet
InFlight == {f \in Files : started[f] > Len(outcome[f])}

\* no scan is under way: scan_jobs_directory holds no listing and no record
NoScanUnderWay == pending = <<>> /\ job_item = None /\ listed = {} /\ cur_scan = {}

\* C13: at most one job is executing at any time, and it is the job of the
\* loop in state Executing; no scan is under way while a job executes; the
\* queue changes only by a push of the scan or by the pop of Dispatching,
\* never while the loop is Executing or Idle.
C13_SingleThreaded ==
    /\ [](Cardinality(InFlight) <= 1)
    /\ [](InFlight = IF pc = "Executing" THEN {job.src} ELSE {})
    /\ [](pc = "Executing" => LoopState # "Scanning" /\ NoScanUnderWay)
    /\ [][queue' # queue =>
            \/ LoopState = "Scanning" /\ queue' = push(queue, job_item)
            \/ pc = "Dispatching" /\ queue' = pop(queue).heap]_vars
    /\ [][(pc = "Executing" \/ pc = "Idle") => queue' = queue]_vars

\* a job executes while a descriptor that loads, written since the scan, waits
\* in jobs/ unread
C13_Witness ==
    /\ pc = "Executing"
    /\ \E f \in Files : disk[f] # NoFile /\ pushes[f] = 0 /\ load_job_file(disk, f).ok

\* the transitions of the loop
Transitions ==
    {<<"LoopHead", "Scanning">>, <<"LoopHead", "Stopped">>,
     <<"Scanning", "Dispatching">>,
     <<"Dispatching", "Executing">>, <<"Dispatching", "Idle">>,
     <<"Executing", "LoopHead">>, <<"Idle", "LoopHead">>}

\* the loop moves along Scanning -> Dispatching -> (Executing | Idle) -> loop
\* head -> Scanning, and Stopped is entered from the loop head only; Idle is
\* entered only with the queue empty right after a scan, and with a non-empty
\* queue Dispatching goes to Executing
LoopOrder ==
    /\ [][LoopState' # LoopState => <<LoopState, LoopState'>> \in Transitions]_vars
    /\ [][pc' = "Idle" /\ pc # "Idle" => pc = "Dispatching" /\ queue = <<>>]_vars
    /\ [][pc = "Dispatching" /\ queue # <<>> /\ pc' # pc => pc' = "Executing"]_vars

\* a step that starts a job after another one was started
NextExecution == pc = "Dispatching" /\ pc' = "Executing" /\ since_exec # "none"

\* C14 as stated: the loop moves along Scanning -> Dispatching -> (Executing |
\* Idle) -> Scanning with Stopped entered at the loop head only, Idle only on
\* an empty queue, Executing on a non-empty one, and between two consecutive
\* job executions exactly one scan takes place.
C14_Original ==
    /\ LoopOrder
    /\ [][NextExecution => since_exec = "one"]_vars

\* C14 amended: the same order of states; between two consecutive job
\* executions at least one scan takes place, and a further one only after a
\* dispatch that found the queue empty; every scan lists all files present,
\* so a descriptor that arrives while a job executes is loaded before the
\* next dispatch.
C14_LoopOrder ==
    /\ LoopOrder
    /\ [][NextExecution => since_exec \in {"one", "more"}]_vars
    /\ [][pc = "Dispatching" /\ pc' # pc => since_exec # "zero"]_vars
    /\ [][ScanGlob /\ since_exec \in {"one", "more"} => job = None]_vars
    /\ GlobListsAll

\* a job is about to start after an earlier one, with an empty dispatch and
\* so more than one scan in between
C14_Witness ==
    /\ pc = "Dispatching"
    /\ queue # <<>>
    /\ since_exec = "more"

\* C15: once a stop is requested, in whatever state the loop is, the flag is
\* never cleared; from then on the loop starts at most one more job and
\* begins at most one more scan, that one only when the request came before
\* the listing of the iteration under way, and a job is started only when the
\* request came before the pop of that iteration; every command ending, the
\* loop reaches Stopped, and no step leaves Stopped.
C15_StopsWithinOneIteration ==
    /\ [][kill_now => kill_now']_vars
    /\ [](after_kill.starts <= 1 /\ after_kill.scans <= 1)
    /\ [](after_kill.scans = 1 => kill_at = "Scanning")
    /\ [](after_kill.starts = 1 => kill_at \in {"Scanning", "Dispatching"})
    /\ [][pc # "Stopped"]_vars
    /\ (kill_now ~> pc = "Stopped")

\* the request came as the loop was about to scan: the loop has scanned, run
\* one job and stopped, leaving a job in the queue
C15_Witness ==
    /\ pc = "Stopped"
    /\ after_kill = [starts |-> 1, scans |-> 1]
    /\ queue # <<>>

\* the queue is empty and no job runs: the loop only scans and sleeps
Drained == queue = <<>> /\ pc \notin {"Executing", "Stopped"}

\* C16: with no stop requested, every command ending and finitely many files
\* ever written, every job that was loaded and pushed is eventually executed
\* and gets its terminal line, the loop never stops, and from some point on
\* the queue stays empty and the loop only scans and sleeps.
C16_EveryJobRuns ==
    /\ \A f \in Files : (pushes[f] >= 1) ~> (started[f] >= 1 /\ Len(outcome[f]) >= 1)
    /\ [](pc # "Stopped")
    /\ <>[]Drained

\* every file name was written, two jobs were loaded and both have run; the
\* loop sleeps on an empty queue
C16_Witness ==
    /\ pc = "Idle"
    /\ queue = <<>>
    /\ used = Files
    /\ Cardinality({f \in Files : pushes[f] = 1 /\ Len(outcome[f]) = 1}) >= 2

\* the key the claim orders by: (-priority, created_at, job_id, command)
Key(x) == <<0 - x.priority, x.created_at, StrRank(x.job_id), StrRank(x.command)>>

\* the lexicographic order of keys
KeyLt(k, l) == \E i \in 1..4 : k[i] < l[i] /\ \A j \in 1..(i - 1) : k[j] = l[j]

\* the records of q are pairwise different in their keys
DistinctKeys(q) == \A i, j \in 1..Len(q) : i # j => Key(q[i]) # Key(q[j])

\* the records of S by ascending key
RECURSIVE SortByKey(_)
SortByKey(S) ==
    IF S = {} THEN <<>>
    ELSE LET m == CHOOSE x \in S : \A y \in S \ {x} : KeyLt(Key(x), Key(y))
         IN  <<m>> \o SortByKey(S \ {m})

\* pop until the queue is empty: the records in the order they are returned
RECURSIVE Drain(_)
Drain(q) ==
    IF q = <<>> THEN <<>>
    ELSE LET r == pop(q) IN <<r.item>> \o Drain(r.heap)

\* the sequence with every raw payload replaced by one and the same
WithoutRaw(q) == [i \in 1..Len(q) |-> [q[i] EXCEPT !.raw = RawB]]

\* C17: whatever the order in which records that pairwise differ in
\* (priority, created_at, job_id, command) were pushed, popping until the
\* queue is empty returns them by ascending (-priority, created_at, job_id,
\* command); with other raw payloads the order is the same.
C17_PopOrderDeterministic ==
    DistinctKeys(queue) =>
        /\ Drain(queue) = SortByKey(Range(queue))
        /\ Drain(WithoutRaw(queue)) = WithoutRaw(Drain(queue))

\* three records that differ pairwise, two of them in the command only; the
\* one pushed last is the one served first
C17_Witness ==
    /\ pc = "pushed"
    /\ Len(queue) = 3
    /\ DistinctKeys(queue)
    /\ \E i, j \in 1..3 :
          /\ queue[i].sort_index = queue[j].sort_index
          /\ queue[i].job_id = queue[j].job_id
          /\ queue[i].command # queue[j].command
    /\ Drain(queue)[1] = job_item
    /\ job_item.raw # Drain(queue)[2].raw

JobStates(f) ==
    (IF f \in Queued /\ pc # "Stopped" THEN {"queued"} ELSE {})
    \cup (IF pc = "Executing" /\ job.src = f THEN {"executing"} ELSE {})
    \cup (IF outcome[f] # <<>> THEN {"finished"} ELSE {})
    \cup (IF f \in Queued /\ pc = "Stopped" THEN {"dropped"} ELSE {})

====
